---- MODULE Spec2Model ----
(***************************************************************************)
(* State-machine model of components/cli-api/cli-api.c: the command        *)
(* registry, the descriptor -> argtable3 table compiler in                 *)
(* cli_register_command, the dispatch wrapper cli_command_wrapper, and the *)
(* console lifecycle (cli_init / cli_deinit).                              *)
(***************************************************************************)
EXTENDS Integers, Sequences, FiniteSets, TLC

(***************************************************************************)
(* Sizes.  The source sets CLI_MAX_ARGS = 8 and CLI_MAX_COMMANDS = 32      *)
(* (cli-api.h:28,33); the model keeps the names and scales the values so   *)
(* that a full registry and a full argument table are reachable.           *)
(***************************************************************************)
CLI_MAX_ARGS == 3

CLI_MAX_COMMANDS == 2

\* Number of registration calls explored in one behaviour.
MaxCalls == 2

\* Registration calls explored beyond the ones that fill the registry.
MaxExtraCalls == 2

\* Longest array passed to cli_register_commands.
MaxBatch == 2

\* Lines cli_run asks linenoise for before the model stops reading.
MaxLines == 2

(***************************************************************************)
(* esp_err_t statuses (esp_err.h), kept symbolic.                          *)
(***************************************************************************)
ESP_OK == "ESP_OK"

ESP_ERR_NO_MEM == "ESP_ERR_NO_MEM"

ESP_ERR_INVALID_ARG == "ESP_ERR_INVALID_ARG"

ESP_ERR_INVALID_STATE == "ESP_ERR_INVALID_STATE"

ESP_FAIL == "ESP_FAIL"

ESP_ERR_NOT_FOUND == "ESP_ERR_NOT_FOUND"

\* What esp_console_cmd_register can hand back to cli_register_command.
EngineResults == {ESP_OK, ESP_ERR_NO_MEM, ESP_ERR_INVALID_ARG}

(***************************************************************************)
(* cli_arg_type_t and the descriptors handed to the registration API.      *)
(***************************************************************************)
CLI_ARG_TYPE_INT == "CLI_ARG_TYPE_INT"

CLI_ARG_TYPE_STRING == "CLI_ARG_TYPE_STRING"

CLI_ARG_TYPE_FLAG == "CLI_ARG_TYPE_FLAG"

\* An enumerator value outside cli_arg_type_t (the switch's default case).
CLI_ARG_TYPE_INVALID == "CLI_ARG_TYPE_INVALID"

ArgKinds == {CLI_ARG_TYPE_INT, CLI_ARG_TYPE_STRING, CLI_ARG_TYPE_FLAG}

NULL == "NULL"

cli_arg_t(opt, type, required) ==
  [short_opt |-> opt, type |-> type, required |-> required]

\* main.c: echo -m <text> [-n <N>] [-u]
echo_cmd ==
  [name |-> "echo", callback |-> "cmd_echo", arg_count |-> 3,
   args |-> << cli_arg_t("m", CLI_ARG_TYPE_STRING, TRUE),
               cli_arg_t("n", CLI_ARG_TYPE_INT, FALSE),
               cli_arg_t("u", CLI_ARG_TYPE_FLAG, FALSE) >>]

\* main.c's calculator example.
calc_cmd ==
  [name |-> "calc", callback |-> "cmd_calc", arg_count |-> 3,
   args |-> << cli_arg_t("a", CLI_ARG_TYPE_INT, TRUE),
               cli_arg_t("b", CLI_ARG_TYPE_INT, TRUE),
               cli_arg_t("v", CLI_ARG_TYPE_FLAG, FALSE) >>]

\* The three remaining (kind, required) combinations.
conf_cmd ==
  [name |-> "conf", callback |-> "cmd_conf", arg_count |-> 3,
   args |-> << cli_arg_t("a", CLI_ARG_TYPE_INT, TRUE),
               cli_arg_t("v", CLI_ARG_TYPE_FLAG, TRUE),
               cli_arg_t("s", CLI_ARG_TYPE_STRING, FALSE) >>]

\* A command without arguments registered through cli_register_command.
hello_cmd ==
  [name |-> "hello", callback |-> "cmd_hello", arg_count |-> 0, args |-> << >>]

\* A second descriptor that reuses the name "echo".
echo2_cmd ==
  [name |-> "echo", callback |-> "cmd_echo2", arg_count |-> 1,
   args |-> << cli_arg_t("n", CLI_ARG_TYPE_INT, TRUE) >>]

\* An argument kind outside the enumeration at index 1.
badkind_cmd ==
  [name |-> "bad", callback |-> "cmd_bad", arg_count |-> 2,
   args |-> << cli_arg_t("a", CLI_ARG_TYPE_INT, TRUE),
               cli_arg_t("b", CLI_ARG_TYPE_INVALID, FALSE) >>]

\* arg_count one past the args[] array: index CLI_MAX_ARGS is read outside it.
long_cmd ==
  [name |-> "long", callback |-> "cmd_long", arg_count |-> CLI_MAX_ARGS + 1,
   args |-> [i \in 1..CLI_MAX_ARGS |-> cli_arg_t("f", CLI_ARG_TYPE_FLAG, FALSE)]]

noname_cmd ==
  [name |-> NULL, callback |-> "cmd_hello", arg_count |-> 0, args |-> << >>]

nocallback_cmd ==
  [name |-> "nocb", callback |-> NULL, arg_count |-> 1,
   args |-> << cli_arg_t("a", CLI_ARG_TYPE_INT, TRUE) >>]

CmdIds == {"echo_cmd", "conf_cmd", "hello_cmd", "echo2_cmd", "badkind_cmd",
           "long_cmd", "noname_cmd", "nocallback_cmd"}

CmdDef(id) ==
  CASE id = "echo_cmd" -> echo_cmd
    [] id = "conf_cmd" -> conf_cmd
    [] id = "hello_cmd" -> hello_cmd
    [] id = "echo2_cmd" -> echo2_cmd
    [] id = "badkind_cmd" -> badkind_cmd
    [] id = "long_cmd" -> long_cmd
    [] id = "noname_cmd" -> noname_cmd
    [] id = "nocallback_cmd" -> nocallback_cmd
    [] id = "calc_cmd" -> calc_cmd

(***************************************************************************)
(* Program state.                                                          *)
(***************************************************************************)
VARIABLES
  s_initialized,      \* cli-api.c:55
  s_store_history,    \* cli-api.c:58
  s_wl_handle,        \* cli-api.c:61, "WL_INVALID_HANDLE" or "mounted"
  s_prompt,           \* cli-api.c:52
  s_registered_cmds,  \* cli-api.c:74
  s_cmd_count,        \* cli-api.c:77
  heap,               \* every parser node argtable3 has allocated, by handle
  console_cmds,       \* names esp_console holds a handler for
  run,                \* where app_main and cli_run stand, and the line held
  calls,              \* registration calls made so far
  obs                 \* what the last call did (return value, callback, ...)

vars == << s_initialized, s_store_history, s_wl_handle, s_prompt,
           s_registered_cmds, s_cmd_count, heap, console_cmds, run, calls,
           obs >>

WL_INVALID_HANDLE == "WL_INVALID_HANDLE"

\* A null table pointer; live handles are the indices 1..Len(heap).
NullNode == 0

\* One cli_registered_cmd_t.  spill is the word that follows argtable[] in
\* the struct (on the 32-bit target: the storage of arg_count and its
\* padding), which a write to argtable[CLI_MAX_ARGS + 1] lands on.
EmptySlot ==
  [cmd_def |-> NULL, argtable |-> [i \in 0..CLI_MAX_ARGS |-> NullNode],
   arg_count |-> 0, spill |-> NullNode]

NoCtx == [argc |-> 0, argv |-> << >>, arg_count |-> 0, args |-> << >>]

NoObs ==
  [op |-> "none", ret |-> "", cmd |-> NULL, slot |-> 0,
   allocated |-> {}, freed |-> << >>, oob |-> FALSE, failed |-> -1,
   engine |-> "", report |-> "", batch |-> << >>, attempted |-> 0,
   argv |-> << >>, found |-> -1, table_run |-> FALSE, nerrors |-> 0,
   fault |-> FALSE, cb_calls |-> 0, cb |-> NULL, has_ctx |-> FALSE,
   ctx |-> NoCtx, raw_call |-> FALSE, cb_ret |-> 0, wret |-> 0,
   returned |-> FALSE, name |-> NULL, after |-> "", after_ret |-> "",
   mounts |-> 0, mount_failed |-> FALSE, engine_inits |-> 0,
   help_regs |-> 0]

\* app_main before cli_init; no line read, none held.
NoRun ==
  [pc |-> "init", ignore_null |-> FALSE, held |-> FALSE, line |-> << >>,
   lines |-> 0, history |-> 0, saved |-> 0, released |-> 0, err |-> "",
   report |-> "", ret |-> ""]

Init ==
  /\ console_cmds = {}
  /\ run = NoRun
  /\ s_initialized = FALSE
  /\ s_store_history = FALSE
  /\ s_wl_handle = WL_INVALID_HANDLE
  /\ s_prompt = << "esp> " >>
  /\ s_registered_cmds = [i \in 0..(CLI_MAX_COMMANDS - 1) |-> EmptySlot]
  /\ s_cmd_count = 0
  /\ heap = << >>
  /\ calls = 0
  /\ obs = NoObs

(***************************************************************************)
(* argtable3 parser nodes.  arg_xxx0 builds a node with mincount 0,        *)
(* arg_xxx1 one with mincount 1; both have maxcount 1.  arg_end(n) builds  *)
(* the terminator, which can record up to n errors.                        *)
(***************************************************************************)
Node(ctor, opt, mincount, maxcount) ==
  [ctor |-> ctor, opt |-> opt, mincount |-> mincount, maxcount |-> maxcount,
   frees |-> 0, count |-> 0, ival |-> 0, sval |-> ""]

arg_int0(opt) == Node("arg_int0", opt, 0, 1)

arg_int1(opt) == Node("arg_int1", opt, 1, 1)

arg_str0(opt) == Node("arg_str0", opt, 0, 1)

arg_str1(opt) == Node("arg_str1", opt, 1, 1)

arg_lit0(opt) == Node("arg_lit0", opt, 0, 1)

arg_lit1(opt) == Node("arg_lit1", opt, 1, 1)

arg_end(maxerrors) == Node("arg_end", NULL, 1, maxerrors)

IsTerminator(n) == n.ctor = "arg_end"

IsInt(n) == n.ctor \in {"arg_int0", "arg_int1"}

IsStr(n) == n.ctor \in {"arg_str0", "arg_str1"}

IsLit(n) == n.ctor \in {"arg_lit0", "arg_lit1"}

\* The switch of cli_register_command: constructor chosen by (type, required).
SelectCtor(arg) ==
  CASE arg.type = CLI_ARG_TYPE_INT ->
         IF arg.required THEN arg_int1(arg.short_opt) ELSE arg_int0(arg.short_opt)
    [] arg.type = CLI_ARG_TYPE_STRING ->
         IF arg.required THEN arg_str1(arg.short_opt) ELSE arg_str0(arg.short_opt)
    [] arg.type = CLI_ARG_TYPE_FLAG ->
         IF arg.required THEN arg_lit1(arg.short_opt) ELSE arg_lit0(arg.short_opt)

\* free(p) for a non-null p: one more release recorded on the node.
Free(h, handle) == [h EXCEPT ![handle].frees = @ + 1]

RECURSIVE FreeSeq(_, _)
FreeSeq(h, handles) ==
  IF handles = << >> THEN h
  ELSE FreeSeq(Free(h, Head(handles)), Tail(handles))

Live(h, handle) == handle \in 1..Len(h) /\ h[handle].frees = 0

(***************************************************************************)
(* The per-argument loop of cli_register_command.  st carries the heap,    *)
(* the table of the slot being filled, what was allocated and released,    *)
(* and the status ("" while the loop is still running).  fail_at is the    *)
(* index whose constructor returns NULL (-1: none); oob_arg is what the    *)
(* read of cmd->args[i] yields for i >= CLI_MAX_ARGS.                      *)
(***************************************************************************)
RECURSIVE BuildArgs(_, _, _, _, _)
BuildArgs(cmd, i, st, fail_at, oob_arg) ==
  IF i >= cmd.arg_count THEN st
  ELSE
    LET arg == IF i < CLI_MAX_ARGS THEN cmd.args[i + 1] ELSE oob_arg IN
    IF arg.type \notin ArgKinds
    THEN [st EXCEPT !.status = ESP_ERR_INVALID_ARG]
    ELSE IF fail_at = i
    THEN LET built == [j \in 1..i |-> st.tab[j - 1]] IN
         [st EXCEPT !.tab[i] = NullNode,
                    !.heap = FreeSeq(st.heap, built),
                    !.freed = built,
                    !.failed = i,
                    !.status = ESP_ERR_NO_MEM]
    ELSE LET handle == Len(st.heap) + 1 IN
         BuildArgs(cmd, i + 1,
                   [st EXCEPT !.heap = Append(st.heap, SelectCtor(arg)),
                              !.tab[i] = handle,
                              !.allocated = @ \cup {handle}],
                   fail_at, oob_arg)

(***************************************************************************)
(* arg_freetable(table, n): releases every non-null entry below n and      *)
(* nulls it.  Entry CLI_MAX_ARGS + 1 lies outside argtable[]: on the       *)
(* 32-bit target it is the storage of the slot's arg_count and padding.    *)
(***************************************************************************)
TableAt(slot, i) ==
  IF i <= CLI_MAX_ARGS THEN slot.argtable[i] ELSE slot.spill

TableSet(slot, i, handle) ==
  IF i <= CLI_MAX_ARGS
  THEN [slot EXCEPT !.argtable[i] = handle]
  ELSE [slot EXCEPT !.spill = handle, !.arg_count = handle % 256]

RECURSIVE arg_freetable(_, _, _, _)
arg_freetable(st, slot, i, n) ==
  IF i >= n THEN [st |-> st, slot |-> slot]
  ELSE IF TableAt(slot, i) = NullNode
  THEN arg_freetable(st, slot, i + 1, n)
  ELSE arg_freetable([st EXCEPT !.heap = Free(st.heap, TableAt(slot, i)),
                                !.freed = Append(@, TableAt(slot, i))],
                     TableSet(slot, i, NullNode), i + 1, n)

(***************************************************************************)
(* cli_register_command(cmd).  R is the registry and heap the call starts  *)
(* from; the result adds the returned status and what the call allocated,  *)
(* released and wrote outside argtable[].  engine_ret is the status of     *)
(* esp_console_cmd_register.                                               *)
(***************************************************************************)
\* The esp_console_cmd_t cli_register_command hands to the engine.
WrapperHandler(name) == [name |-> name, func |-> "cli_command_wrapper"]

RegState(cmds, count, h) ==
  [cmds |-> cmds, count |-> count, heap |-> h, ret |-> "",
   allocated |-> {}, freed |-> << >>, oob |-> FALSE, failed |-> -1,
   engine |-> "", accepted |-> {}]

RegisterWithArgs(R, id, fail_at, engine_ret, oob_arg) ==
  LET cmd == CmdDef(id)
      n == cmd.arg_count
      slot0 == [R.cmds[R.count] EXCEPT !.cmd_def = id, !.arg_count = n,
                                       !.spill = NullNode]
      st0 == [heap |-> R.heap, tab |-> slot0.argtable, allocated |-> {},
              freed |-> << >>, failed |-> -1, status |-> ""]
      st1 == BuildArgs(cmd, 0, st0, fail_at, oob_arg)
      slot1 == [slot0 EXCEPT !.argtable = st1.tab]
  IN
  IF st1.status # ""
  THEN \* return from inside the loop: invalid type or failed allocation
       [R EXCEPT !.cmds[R.count] = slot1, !.heap = st1.heap,
                 !.ret = st1.status, !.allocated = st1.allocated,
                 !.freed = st1.freed, !.failed = st1.failed]
  ELSE
    LET end_ok == fail_at # n
        end_handle == IF end_ok THEN Len(st1.heap) + 1 ELSE NullNode
        heap2 == IF end_ok THEN Append(st1.heap, arg_end(n + 1)) ELSE st1.heap
        alloc2 == IF end_ok THEN st1.allocated \cup {end_handle}
                  ELSE st1.allocated
        slot2 == TableSet(slot1, n, end_handle)
        st2 == [st1 EXCEPT !.heap = heap2, !.allocated = alloc2]
        overrun == n > CLI_MAX_ARGS
        end_failed == IF end_ok THEN -1 ELSE n
    IN
    IF engine_ret # ESP_OK
    THEN LET fr == arg_freetable(st2, slot2, 0, n + 1) IN
         [R EXCEPT !.cmds[R.count] = fr.slot, !.heap = fr.st.heap,
                   !.ret = engine_ret, !.allocated = alloc2,
                   !.freed = fr.st.freed, !.oob = overrun,
                   !.failed = end_failed, !.engine = engine_ret]
    ELSE [R EXCEPT !.cmds[R.count] = slot2, !.count = R.count + 1,
                   !.heap = heap2, !.ret = ESP_OK, !.allocated = alloc2,
                   !.oob = overrun, !.failed = end_failed,
                   !.engine = engine_ret,
                   !.accepted = @ \cup {WrapperHandler(cmd.name)}]

\* A registration that checks the capacity only on the path that builds a
\* table.
RegisterUncappedZeroArg(R, id, fail_at, engine_ret, oob_arg) ==
  IF id = NULL \/ CmdDef(id).name = NULL \/ CmdDef(id).callback = NULL
  THEN [R EXCEPT !.ret = ESP_ERR_INVALID_ARG]
  ELSE IF CmdDef(id).arg_count = 0
  THEN [R EXCEPT !.count = R.count + 1, !.ret = engine_ret]
  ELSE IF R.count >= CLI_MAX_COMMANDS
  THEN [R EXCEPT !.ret = ESP_ERR_NO_MEM]
  ELSE RegisterWithArgs(R, id, fail_at, engine_ret, oob_arg)

Register(R, id, fail_at, engine_ret, oob_arg) ==
  IF id = NULL \/ CmdDef(id).name = NULL \/ CmdDef(id).callback = NULL
  THEN [R EXCEPT !.ret = ESP_ERR_INVALID_ARG]
  ELSE IF R.count >= CLI_MAX_COMMANDS
  THEN [R EXCEPT !.ret = ESP_ERR_NO_MEM]
  ELSE IF CmdDef(id).arg_count = 0
  THEN [R EXCEPT !.cmds[R.count].cmd_def = id,
                 !.cmds[R.count].arg_count = 0,
                 !.cmds[R.count].spill = NullNode,
                 !.count = R.count + 1,
                 !.ret = engine_ret,
                 !.engine = engine_ret,
                 !.accepted = IF engine_ret = ESP_OK
                              THEN @ \cup {WrapperHandler(CmdDef(id).name)}
                              ELSE @]
  ELSE RegisterWithArgs(R, id, fail_at, engine_ret, oob_arg)

\* What the read of cmd->args[CLI_MAX_ARGS], outside the array, can yield.
OobArgs ==
  { cli_arg_t("g", CLI_ARG_TYPE_FLAG, FALSE),
    cli_arg_t("g", CLI_ARG_TYPE_INT, TRUE),
    cli_arg_t("g", CLI_ARG_TYPE_INVALID, FALSE) }

(***************************************************************************)
(* Node handles are opaque addresses, and a node that no table entry       *)
(* points to can never be reached by the program again.  Before a call     *)
(* allocates, the model drops those nodes and renumbers the remaining      *)
(* handles in table order.                                                 *)
(***************************************************************************)
SlotRefs(slot) ==
  SelectSeq([i \in 1..(CLI_MAX_ARGS + 2) |-> TableAt(slot, i - 1)],
            LAMBDA handle : handle # NullNode)

RECURSIVE AllRefs(_, _)
AllRefs(cmds, i) ==
  IF i >= CLI_MAX_COMMANDS THEN << >>
  ELSE SlotRefs(cmds[i]) \o AllRefs(cmds, i + 1)

Rename(refs, handle) ==
  IF handle = NullNode THEN NullNode
  ELSE CHOOSE k \in 1..Len(refs) : refs[k] = handle

Compact(cmds, h) ==
  LET refs == AllRefs(cmds, 0) IN
  [cmds |-> [i \in DOMAIN cmds |->
               [cmds[i] EXCEPT
                  !.argtable = [j \in 0..CLI_MAX_ARGS |-> Rename(refs, @[j])],
                  !.spill = Rename(refs, @)]],
   heap |-> [k \in 1..Len(refs) |-> h[refs[k]]]]

\* The failure points and out-of-array reads that make a difference for id.
FailPoints(id) ==
  IF id = NULL THEN {-1} ELSE -1..CmdDef(id).arg_count

OobReads(id) ==
  IF id = "long_cmd" THEN OobArgs
  ELSE {cli_arg_t("g", CLI_ARG_TYPE_FLAG, FALSE)}

RegisterCall(ids, engine_rets, fail_points, budget) ==
  /\ ~obs.fault
  /\ calls < budget
  /\ calls' = calls + 1
  /\ LET c == Compact(s_registered_cmds, heap) IN
     \E id \in ids, engine_ret \in engine_rets :
     \E fail_at \in FailPoints(id) \cap fail_points, oob_arg \in OobReads(id) :
       LET r == Register(RegState(c.cmds, s_cmd_count, c.heap),
                         id, fail_at, engine_ret, oob_arg)
       IN /\ s_registered_cmds' = r.cmds
          /\ s_cmd_count' = r.count
          /\ heap' = r.heap
          /\ console_cmds' = console_cmds \cup r.accepted
          /\ obs' = [NoObs EXCEPT !.op = "register", !.ret = r.ret,
                                  !.cmd = id, !.slot = s_cmd_count,
                                  !.allocated = r.allocated,
                                  !.freed = r.freed, !.oob = r.oob,
                                  !.failed = r.failed,
                                  !.engine = r.engine]
  /\ UNCHANGED << s_initialized, s_store_history, s_wl_handle,
                  s_prompt >>

AnyFailPoint == -1..(CLI_MAX_ARGS + 1)

cli_register_command ==
  RegisterCall(CmdIds \cup {NULL}, EngineResults, AnyFailPoint, MaxCalls)

(***************************************************************************)
(* Command lines.  argv[1] is the command name (C's argv[0]); the rest are *)
(* tokens: short options and values.                                       *)
(***************************************************************************)
OptionTokens == {"-m", "-n", "-u", "-a", "-v", "-s", "-x"}

IsOption(tok) == tok \in OptionTokens

\* The option letter of a "-x" token.
OptLetter(tok) ==
  CASE tok = "-m" -> "m" [] tok = "-n" -> "n" [] tok = "-u" -> "u"
    [] tok = "-a" -> "a" [] tok = "-v" -> "v" [] tok = "-s" -> "s"
    [] OTHER -> "x"

\* arg_int's scan: decimal, or hexadecimal with a 0x prefix.
IsIntText(tok) == tok \in {"0", "2", "7", "0x10"}

IntOfText(tok) ==
  CASE tok = "0" -> 0 [] tok = "2" -> 2 [] tok = "7" -> 7 [] tok = "0x10" -> 16

\* The command lines the console engine hands to the wrapper.
CommandLines ==
  { << "echo" >>,
    << "echo", "-m", "hi" >>,
    << "echo", "-m", "hi", "-n", "2" >>,
    << "echo", "-m", "hi", "-n", "0" >>,
    << "echo", "-m", "hi", "-u" >>,
    << "echo", "-m", "hi", "-u", "-u" >>,
    << "echo", "-n", "7" >>,
    << "echo", "-m", "hi", "-n", "hi" >>,
    << "echo", "-m" >>,
    << "echo", "-x" >>,
    << "conf" >>,
    << "conf", "-a", "7", "-v" >>,
    << "conf", "-a", "0x10", "-v", "-s", "hi" >>,
    << "conf", "-a", "2" >>,
    << "conf", "-v", "-s", "hi" >>,
    << "conf", "hi" >>,
    << "hello" >>,
    << "hello", "-m", "hi" >>,
    << "ECHO", "-m", "hi" >>,
    << "nope" >> }

\* What a user callback may return.
CallbackResults == {0, 5}

(***************************************************************************)
(* arg_parse(argc, argv, table) of argtable3.                              *)
(***************************************************************************)
\* Index of the first entry that stops the walk over the table: the
\* terminator, a null entry, a released node, or the end of argtable[].
RECURSIVE WalkEnd(_, _, _)
WalkEnd(h, slot, i) ==
  IF i > CLI_MAX_ARGS THEN i
  ELSE IF ~Live(h, slot.argtable[i]) THEN i
  ELSE IF IsTerminator(h[slot.argtable[i]]) THEN i
  ELSE WalkEnd(h, slot, i + 1)

TableShape(h, slot) ==
  LET e == WalkEnd(h, slot, 0) IN
  IF e > CLI_MAX_ARGS THEN "overrun"
  ELSE IF slot.argtable[e] = NullNode THEN "null"
  ELSE IF ~Live(h, slot.argtable[e]) THEN "dangling"
  ELSE "ok"

\* arg_reset: every count back to 0; arg_str also clears its value, arg_int
\* keeps the last ival.
ResetNode(n) ==
  IF IsStr(n) THEN [n EXCEPT !.count = 0, !.sval = ""]
  ELSE [n EXCEPT !.count = 0]

\* A parse that starts from the counts and values of the previous one.
arg_reset_skipped(h, slot, e) == h

arg_reset(h, slot, e) ==
  LET tabled == {slot.argtable[i] : i \in 0..e} IN
  [k \in 1..Len(h) |-> IF k \in tabled THEN ResetNode(h[k]) ELSE h[k]]

\* First table index below e whose node carries the option letter, or -1.
find_shortoption(h, slot, e, letter) ==
  LET hits == {i \in 0..(e - 1) : h[slot.argtable[i]].opt = letter} IN
  IF hits = {} THEN -1 ELSE CHOOSE i \in hits : \A j \in hits : i <= j

\* scanfn of the node kinds: the node after the scan, and whether it erred.
ScanLit(n) ==
  IF n.count < n.maxcount THEN [node |-> [n EXCEPT !.count = @ + 1], err |-> 0]
  ELSE [node |-> n, err |-> 1]

ScanInt(n, val) ==
  IF n.count = n.maxcount THEN [node |-> n, err |-> 1]
  ELSE IF ~IsIntText(val) THEN [node |-> n, err |-> 1]
  ELSE [node |-> [n EXCEPT !.ival = IntOfText(val), !.count = @ + 1], err |-> 0]

ScanStr(n, val) ==
  IF n.count = n.maxcount THEN [node |-> n, err |-> 1]
  ELSE [node |-> [n EXCEPT !.sval = val, !.count = @ + 1], err |-> 0]

\* arg_parse_tagged and arg_parse_untagged over argv[i..]: options are
\* matched by letter, an option with a value takes the next token, and a
\* token that is no option matches nothing in a table of tagged entries.
RECURSIVE ParseTokens(_, _, _, _, _, _)
ParseTokens(h, slot, e, argv, i, errs) ==
  IF i > Len(argv) THEN [heap |-> h, errs |-> errs]
  ELSE IF ~IsOption(argv[i])
  THEN ParseTokens(h, slot, e, argv, i + 1, errs + 1)
  ELSE
    LET t == find_shortoption(h, slot, e, OptLetter(argv[i])) IN
    IF t = -1 THEN ParseTokens(h, slot, e, argv, i + 1, errs + 1)
    ELSE
      LET handle == slot.argtable[t]
          n == h[handle]
      IN
      IF IsLit(n)
      THEN LET r == ScanLit(n) IN
           ParseTokens([h EXCEPT ![handle] = r.node], slot, e, argv, i + 1,
                       errs + r.err)
      ELSE IF i = Len(argv)
      THEN ParseTokens(h, slot, e, argv, i + 1, errs + 1)
      ELSE LET r == IF IsInt(n) THEN ScanInt(n, argv[i + 1])
                    ELSE ScanStr(n, argv[i + 1]) IN
           ParseTokens([h EXCEPT ![handle] = r.node], slot, e, argv, i + 2,
                       errs + r.err)

\* A check that lets every node pass, whatever its mincount.
arg_parse_check_skipped(h, slot, e) == 0

\* arg_parse_check: one error per node with fewer occurrences than mincount.
arg_parse_check(h, slot, e) ==
  Cardinality({i \in 0..(e - 1) :
                 h[slot.argtable[i]].count < h[slot.argtable[i]].mincount})

\* arg_parse on a well-formed table: the heap after the parse and the
\* number of errors the terminator holds (at most its capacity).
arg_parse(h, slot, argv) ==
  LET e == WalkEnd(h, slot, 0)
      h0 == arg_reset(h, slot, e)
      p == ParseTokens(h0, slot, e, argv, 2, 0)
      errs == IF p.errs = 0 THEN arg_parse_check(p.heap, slot, e) ELSE p.errs
      cap == h[slot.argtable[e]].maxcount
      nerrors == IF errs > cap THEN cap ELSE errs
  IN [heap |-> [p.heap EXCEPT ![slot.argtable[e]].count = nerrors],
      nerrors |-> nerrors]

(***************************************************************************)
(* cli_command_wrapper(argc, argv).                                        *)
(***************************************************************************)
\* A scan that keeps the last match.
LookupLast(cmds, count, name) ==
  LET hits == {i \in 0..(count - 1) : CmdDef(cmds[i].cmd_def).name = name} IN
  IF hits = {} THEN -1 ELSE CHOOSE i \in hits : \A j \in hits : i >= j

\* The linear scan over s_registered_cmds[0 .. s_cmd_count - 1]: the first
\* index whose descriptor name equals argv[0], or -1.
Lookup(cmds, count, name) ==
  LET hits == {i \in 0..(count - 1) : CmdDef(cmds[i].cmd_def).name = name} IN
  IF hits = {} THEN -1 ELSE CHOOSE i \in hits : \A j \in hits : i <= j

\* A zero-initialised cli_arg_value_t.
NoValue ==
  [count |-> 0, int_value |-> 0, str_value |-> NULL, flag_value |-> FALSE]

\* An extraction that takes a value only from a repeated occurrence.
ExtractArgRepeatedOnly(n, type) ==
  CASE type = CLI_ARG_TYPE_INT ->
         [NoValue EXCEPT !.count = n.count,
                         !.int_value = IF n.count > 1 THEN n.ival ELSE 0]
    [] type = CLI_ARG_TYPE_STRING ->
         [NoValue EXCEPT !.count = n.count,
                         !.str_value = IF n.count > 1 THEN n.sval ELSE NULL]
    [] type = CLI_ARG_TYPE_FLAG ->
         [NoValue EXCEPT !.count = n.count, !.flag_value = (n.count > 1)]
    [] OTHER -> NoValue

\* The switch that fills ctx.args[i] from the node, by the declared type.
ExtractArg(n, type) ==
  CASE type = CLI_ARG_TYPE_INT ->
         [NoValue EXCEPT !.count = n.count,
                         !.int_value = IF n.count > 0 THEN n.ival ELSE 0]
    [] type = CLI_ARG_TYPE_STRING ->
         [NoValue EXCEPT !.count = n.count,
                         !.str_value = IF n.count > 0 THEN n.sval ELSE NULL]
    [] type = CLI_ARG_TYPE_FLAG ->
         [NoValue EXCEPT !.count = n.count, !.flag_value = (n.count > 0)]
    [] OTHER -> NoValue

\* A wrapper that reports any callback failure as 1.
WrapperReturnFlattened(cb_ret) == IF cb_ret = 0 THEN 0 ELSE 1

\* What the wrapper hands back after the callback returned cb_ret.
WrapperReturn(cb_ret) == cb_ret

\* A context whose args[] is filled from the table shifted by one entry.
BuildContextShifted(h, slot, cmd, argv) ==
  LET held == IF cmd.arg_count > CLI_MAX_ARGS THEN CLI_MAX_ARGS
              ELSE cmd.arg_count IN
  [argc |-> Len(argv), argv |-> argv, arg_count |-> cmd.arg_count,
   args |-> [i \in 1..held |->
               IF Live(h, slot.argtable[i])
               THEN ExtractArg(h[slot.argtable[i]], cmd.args[i].type)
               ELSE NoValue]]

\* ctx as built for the callback; entries past args[] cannot be held.
BuildContext(h, slot, cmd, argv) ==
  LET held == IF cmd.arg_count > CLI_MAX_ARGS THEN CLI_MAX_ARGS
              ELSE cmd.arg_count IN
  [argc |-> Len(argv), argv |-> argv, arg_count |-> cmd.arg_count,
   args |-> [i \in 1..held |->
               IF Live(h, slot.argtable[i - 1])
               THEN ExtractArg(h[slot.argtable[i - 1]], cmd.args[i].type)
               ELSE NoValue]]

\* The outcomes of a walk over a malformed table (a released node, or no
\* terminator inside argtable[]): the access traps, or it reads whatever
\* the memory holds and arg_parse reports some error count.
UbOutcomes == {"fault", "errors", "clean"}

\* What the wrapper emits before it returns 1: arg_print_errors on stderr
\* for a parse failure, an ESP_LOGE line for a name it does not find.
ParseFailureReport == "arg_print_errors"

\* A wrapper that reports an unknown name the way it reports parse errors.
NotFoundReportedAsParseErrors == ParseFailureReport

NotFoundReport == "ESP_LOGE: Command not found internally"

DispatchObs(argv) == [NoObs EXCEPT !.op = "dispatch", !.argv = argv]

WrapperCall(argv) ==
       LET idx == Lookup(s_registered_cmds, s_cmd_count, argv[1])
           o == DispatchObs(argv)
       IN
       IF idx = -1
       THEN /\ heap' = heap
            /\ obs' = [o EXCEPT !.wret = 1, !.returned = TRUE,
                                !.report = NotFoundReport]
       ELSE
         LET slot == s_registered_cmds[idx]
             cmd == CmdDef(slot.cmd_def)
             found == [o EXCEPT !.found = idx, !.table_run = TRUE]
             called(h, cb_ret) ==
               [found EXCEPT !.cb_calls = 1, !.cb = cmd.callback,
                             !.has_ctx = TRUE,
                             !.ctx = BuildContext(h, slot, cmd, argv),
                             !.oob = cmd.arg_count > CLI_MAX_ARGS,
                             !.cb_ret = cb_ret, !.wret = WrapperReturn(cb_ret),
                             !.returned = TRUE]
             failed(nerrors) ==
               [found EXCEPT !.nerrors = nerrors, !.wret = 1,
                             !.returned = TRUE,
                             !.report = ParseFailureReport]
             trapped == [found EXCEPT !.fault = TRUE]
         IN
         IF TableShape(heap, slot) = "ok"
         THEN LET p == arg_parse(heap, slot, argv) IN
              /\ heap' = p.heap
              /\ IF p.nerrors # 0
                 THEN IF IsTerminator(heap[slot.argtable[cmd.arg_count]])
                      THEN obs' = failed(p.nerrors)
                      ELSE \* arg_print_errors reads a node that is no arg_end
                           \E ub \in {"fault", "errors"} :
                             obs' = IF ub = "fault" THEN trapped
                                    ELSE failed(p.nerrors)
                 ELSE \E cb_ret \in CallbackResults :
                        obs' = called(p.heap, cb_ret)
         ELSE
           /\ heap' = heap
           /\ IF TableShape(heap, slot) = "null"
              THEN obs' = trapped
              ELSE \E ub \in UbOutcomes, cb_ret \in CallbackResults :
                     /\ ub # "clean" => cb_ret = 0
                     /\ obs' = CASE ub = "fault" -> trapped
                                 [] ub = "errors" -> failed(1)
                                 [] ub = "clean" -> called(heap, cb_ret)

\* A wrapper that retires the entry it resolved.
cli_command_wrapper_retires_entry ==
  /\ ~obs.fault
  /\ \E argv \in CommandLines : WrapperCall(argv)
  /\ s_cmd_count' = IF obs'.found # -1 THEN s_cmd_count - 1 ELSE s_cmd_count
  /\ UNCHANGED << s_initialized, s_store_history, s_wl_handle, s_prompt,
                  s_registered_cmds, console_cmds, calls >>

cli_command_wrapper ==
  /\ ~obs.fault
  /\ \E argv \in CommandLines : WrapperCall(argv)
  /\ UNCHANGED << s_initialized, s_store_history, s_wl_handle, s_prompt,
                  s_registered_cmds, s_cmd_count, console_cmds, calls >>

(***************************************************************************)
(* cli_init(config) and cli_deinit().  nvs_ok and mount_ok are the         *)
(* outcomes of cli_init_nvs and of the FATFS mount.                        *)
(***************************************************************************)
\* CLI_CONFIG_DEFAULT(), which cli_init also uses for a null config.
CLI_CONFIG_DEFAULT ==
  [prompt |-> NULL, register_help |-> TRUE, store_history |-> FALSE]

\* cli_setup_prompt: the default text for a null prompt, wrapped in colour
\* codes unless the terminal is dumb.
cli_setup_prompt(prompt_str, dumb) ==
  LET prompt_temp == IF prompt_str # NULL THEN prompt_str ELSE "esp> " IN
  IF dumb THEN << prompt_temp >>
  ELSE << "LOG_COLOR_I", prompt_temp, "LOG_RESET_COLOR" >>

\* The handler esp_console_register_help_command installs.
HelpCommand == [name |-> "help", func |-> "help_command"]

\* A cli_init that mounts, starts the engine and sets the flag again when
\* the console is already initialised.
CliInitTwice(configs, dumb_modes) ==
  \E config \in configs, dumb \in dumb_modes :
  \E nvs_ok \in BOOLEAN, mount_ok \in BOOLEAN :
    /\ ~obs.fault
    /\ IF ~nvs_ok
       THEN /\ UNCHANGED << s_initialized, s_store_history, s_wl_handle,
                            s_prompt, console_cmds >>
            /\ obs' = [NoObs EXCEPT !.op = "init", !.ret = ESP_FAIL]
       ELSE /\ s_store_history' = (config.store_history /\ mount_ok)
            /\ s_wl_handle' = IF config.store_history /\ mount_ok
                              THEN "mounted" ELSE s_wl_handle
            /\ s_prompt' = cli_setup_prompt(config.prompt, dumb)
            /\ console_cmds' = IF config.register_help
                               THEN console_cmds \cup {HelpCommand}
                               ELSE console_cmds
            /\ s_initialized' = TRUE
            /\ obs' = [NoObs EXCEPT
                         !.op = "init", !.ret = ESP_OK,
                         !.mounts = IF config.store_history THEN 1 ELSE 0,
                         !.mount_failed = config.store_history /\ ~mount_ok,
                         !.engine_inits = 1,
                         !.help_regs = IF config.register_help THEN 1 ELSE 0]
    /\ UNCHANGED << s_registered_cmds, s_cmd_count, heap, calls >>

\* A cli_init that trusts the configuration and not the mount.
CliInitHistoryAsConfigured(configs, dumb_modes) ==
  \E config \in configs, dumb \in dumb_modes :
  \E nvs_ok \in BOOLEAN, mount_ok \in BOOLEAN :
    /\ ~obs.fault
    /\ IF s_initialized
       THEN /\ UNCHANGED << s_initialized, s_store_history, s_wl_handle,
                            s_prompt, console_cmds >>
            /\ obs' = [NoObs EXCEPT !.op = "init", !.ret = ESP_OK]
       ELSE IF ~nvs_ok
       THEN /\ UNCHANGED << s_initialized, s_store_history, s_wl_handle,
                            s_prompt, console_cmds >>
            /\ obs' = [NoObs EXCEPT !.op = "init", !.ret = ESP_FAIL]
       ELSE /\ s_store_history' = config.store_history
            /\ s_wl_handle' = IF config.store_history /\ mount_ok
                              THEN "mounted" ELSE s_wl_handle
            /\ s_prompt' = cli_setup_prompt(config.prompt, dumb)
            /\ console_cmds' = IF config.register_help
                               THEN console_cmds \cup {HelpCommand}
                               ELSE console_cmds
            /\ s_initialized' = TRUE
            /\ obs' = [NoObs EXCEPT
                         !.op = "init", !.ret = ESP_OK,
                         !.mounts = IF config.store_history THEN 1 ELSE 0,
                         !.mount_failed = config.store_history /\ ~mount_ok,
                         !.engine_inits = 1,
                         !.help_regs = IF config.register_help THEN 1 ELSE 0]
    /\ UNCHANGED << s_registered_cmds, s_cmd_count, heap, calls >>

\* cli_init(config) for a config of configs on a terminal whose dumb mode is
\* one of dumb_modes.
CliInit(configs, dumb_modes) ==
  \E config \in configs, dumb \in dumb_modes :
  \E nvs_ok \in BOOLEAN, mount_ok \in BOOLEAN :
    /\ ~obs.fault
    /\ IF s_initialized
       THEN /\ UNCHANGED << s_initialized, s_store_history, s_wl_handle,
                            s_prompt, console_cmds >>
            /\ obs' = [NoObs EXCEPT !.op = "init", !.ret = ESP_OK]
       ELSE IF ~nvs_ok
       THEN /\ UNCHANGED << s_initialized, s_store_history, s_wl_handle,
                            s_prompt, console_cmds >>
            /\ obs' = [NoObs EXCEPT !.op = "init", !.ret = ESP_FAIL]
       ELSE /\ s_store_history' = (config.store_history /\ mount_ok)
            /\ s_wl_handle' = IF config.store_history /\ mount_ok
                              THEN "mounted" ELSE s_wl_handle
            /\ s_prompt' = cli_setup_prompt(config.prompt, dumb)
            /\ console_cmds' = IF config.register_help
                               THEN console_cmds \cup {HelpCommand}
                               ELSE console_cmds
            /\ s_initialized' = TRUE
            /\ obs' = [NoObs EXCEPT
                         !.op = "init", !.ret = ESP_OK,
                         !.mounts = IF config.store_history THEN 1 ELSE 0,
                         !.mount_failed = config.store_history /\ ~mount_ok,
                         !.engine_inits = 1,
                         !.help_regs = IF config.register_help THEN 1 ELSE 0]
    /\ UNCHANGED << s_registered_cmds, s_cmd_count, heap, calls >>

\* Configurations that differ in store_history only, on a dumb terminal.
HistoryConfigs ==
  {[prompt |-> NULL, register_help |-> FALSE, store_history |-> b] :
     b \in BOOLEAN}

cli_init == CliInit(HistoryConfigs, {TRUE})

\* A teardown that forgets to reset the count.
cli_deinit_keeps_count ==
  /\ ~obs.fault
  /\ IF s_initialized
     THEN /\ s_wl_handle' = IF s_store_history THEN WL_INVALID_HANDLE
                            ELSE s_wl_handle
          /\ s_store_history' = FALSE
          /\ s_initialized' = FALSE
          /\ s_cmd_count' = s_cmd_count
          /\ console_cmds' = {}
     ELSE UNCHANGED << s_initialized, s_store_history, s_wl_handle,
                       s_cmd_count, console_cmds >>
  /\ obs' = [NoObs EXCEPT !.op = "deinit"]
  /\ UNCHANGED << s_prompt, s_registered_cmds, heap, calls >>

cli_deinit ==
  /\ ~obs.fault
  /\ IF s_initialized
     THEN /\ s_wl_handle' = IF s_store_history THEN WL_INVALID_HANDLE
                            ELSE s_wl_handle
          /\ s_store_history' = FALSE
          /\ s_initialized' = FALSE
          /\ s_cmd_count' = 0
          /\ console_cmds' = {}
     ELSE UNCHANGED << s_initialized, s_store_history, s_wl_handle,
                       s_cmd_count, console_cmds >>
  /\ obs' = [NoObs EXCEPT !.op = "deinit"]
  /\ UNCHANGED << s_prompt, s_registered_cmds, heap, calls >>

Next ==
  \/ cli_init /\ UNCHANGED run
  \/ cli_register_command /\ UNCHANGED run
  \/ cli_deinit /\ UNCHANGED run

Spec == Init /\ [][Next]_vars

(***************************************************************************)
(* Registration of well-formed descriptors followed by dispatches.  The    *)
(* allocator may fail on the terminator, the console engine may refuse.    *)
(***************************************************************************)
WellFormedIds == {"echo_cmd", "conf_cmd", "hello_cmd"}

\* No failure, or the failure of arg_end alone.
TerminatorOnly == {-1} \cup {CmdDef(id).arg_count : id \in WellFormedIds \ {"hello_cmd"}}

register_valid_command ==
  RegisterCall(WellFormedIds, {ESP_OK, ESP_ERR_NO_MEM}, TerminatorOnly,
               MaxCalls)

NextDispatch ==
  \/ register_valid_command /\ UNCHANGED run
  \/ cli_command_wrapper /\ UNCHANGED run

SpecDispatch == Init /\ [][NextDispatch]_vars


(***************************************************************************)
(* Registrations that fill the registry and go on past its capacity.       *)
(***************************************************************************)
register_until_full ==
  RegisterCall({"hello_cmd", "echo2_cmd", "nocallback_cmd", NULL},
               {ESP_OK, ESP_ERR_NO_MEM}, AnyFailPoint,
               CLI_MAX_COMMANDS + MaxExtraCalls)

NextFull ==
  \/ cli_init /\ UNCHANGED run
  \/ register_until_full /\ UNCHANGED run
  \/ cli_deinit /\ UNCHANGED run

SpecFull == Init /\ [][NextFull]_vars


(***************************************************************************)
(* cli_register_commands(commands, count).  ids is the array (empty for a  *)
(* null pointer or a count of 0), env[i] what the allocator and the        *)
(* console engine do during the call made for element i.                   *)
(***************************************************************************)
\* A loop that goes on after a failed element and returns the last status.
RegisterEachNoStop(R, ids, i, env) ==
  LET one(Q, j) == Register([Q EXCEPT !.allocated = {}, !.freed = << >>,
                                      !.failed = -1, !.engine = ""],
                            ids[j], env[j].fail_at, env[j].engine_ret,
                            cli_arg_t("g", CLI_ARG_TYPE_FLAG, FALSE))
      r1 == one(R, 1)
      r2 == IF Len(ids) >= 2 THEN one(r1, 2) ELSE r1
  IN [R |-> r2, ret |-> r2.ret, attempted |-> Len(ids)]

RECURSIVE RegisterEach(_, _, _, _)
RegisterEach(R, ids, i, env) ==
  IF i > Len(ids) THEN [R |-> R, ret |-> ESP_OK, attempted |-> i - 1]
  ELSE
    LET r == Register([R EXCEPT !.allocated = {}, !.freed = << >>,
                                !.failed = -1, !.engine = ""],
                      ids[i], env[i].fail_at, env[i].engine_ret,
                      cli_arg_t("g", CLI_ARG_TYPE_FLAG, FALSE))
    IN IF r.ret # ESP_OK
       THEN [R |-> r, ret |-> r.ret, attempted |-> i]
       ELSE RegisterEach(r, ids, i + 1, env)

BatchIds == {"echo_cmd", "hello_cmd", "nocallback_cmd"}

\* The arrays passed: none or an empty one, or up to MaxBatch descriptors.
Batches == UNION {[1..n -> BatchIds] : n \in 0..MaxBatch}

ElementEnvs(id) ==
  {[fail_at |-> f, engine_ret |-> e] :
     f \in FailPoints(id) \cap TerminatorOnly, e \in {ESP_OK, ESP_ERR_NO_MEM}}

BatchEnvs(ids) ==
  {env \in [1..Len(ids) -> UNION {ElementEnvs(id) : id \in BatchIds}] :
     \A i \in 1..Len(ids) : env[i] \in ElementEnvs(ids[i])}

cli_register_commands ==
  /\ ~obs.fault
  /\ calls < MaxCalls
  /\ calls' = calls + 1
  /\ \E ids \in Batches :
       IF Len(ids) = 0
       THEN /\ UNCHANGED << s_registered_cmds, s_cmd_count, heap,
                            console_cmds >>
            /\ obs' = [NoObs EXCEPT !.op = "register_commands",
                                    !.ret = ESP_ERR_INVALID_ARG,
                                    !.slot = s_cmd_count]
       ELSE
         LET c == Compact(s_registered_cmds, heap) IN
         \E env \in BatchEnvs(ids) :
           LET b == RegisterEach(RegState(c.cmds, s_cmd_count, c.heap),
                                 ids, 1, env)
           IN /\ s_registered_cmds' = b.R.cmds
              /\ s_cmd_count' = b.R.count
              /\ heap' = b.R.heap
              /\ console_cmds' = console_cmds \cup b.R.accepted
              /\ obs' = [NoObs EXCEPT !.op = "register_commands",
                                      !.ret = b.ret, !.slot = s_cmd_count,
                                      !.batch = ids,
                                      !.attempted = b.attempted,
                                      !.failed = b.R.failed,
                                      !.engine = b.R.engine]
  /\ UNCHANGED << s_initialized, s_store_history, s_wl_handle,
                  s_prompt >>

NextBatch ==
  \/ cli_init /\ UNCHANGED run
  \/ cli_register_commands /\ UNCHANGED run
  \/ cli_deinit /\ UNCHANGED run

SpecBatch == Init /\ [][NextBatch]_vars

(***************************************************************************)
(* Two descriptors that share the name "echo", registered in either order  *)
(* and dispatched.                                                         *)
(***************************************************************************)
SameNameIds == {"echo_cmd", "echo2_cmd"}

register_same_name ==
  RegisterCall(SameNameIds, {ESP_OK, ESP_ERR_NO_MEM}, TerminatorOnly, MaxCalls)

NextDup ==
  \/ register_same_name /\ UNCHANGED run
  \/ cli_command_wrapper /\ UNCHANGED run

SpecDup == Init /\ [][NextDup]_vars

(***************************************************************************)
(* app_main: cli_init under ESP_ERROR_CHECK, the example registrations of  *)
(* register_cli_api_examples, then cli_run and cli_deinit.  run.pc is the  *)
(* statement app_main or cli_run stands at.  gpio_cmd, whose six arguments *)
(* exceed the model's CLI_MAX_ARGS, is left out.                           *)
(***************************************************************************)
\* The configuration app_main passes.
AppConfig ==
  [prompt |-> "esp32s3> ", register_help |-> TRUE, store_history |-> TRUE]

app_cli_init ==
  /\ run.pc = "init"
  /\ CliInit({AppConfig}, {FALSE})
  /\ run' = [run EXCEPT !.pc = IF obs'.ret = ESP_OK THEN "reg_hello"
                                ELSE "aborted"]

\* A simple registration that also takes a registry slot for the name.
cli_register_simple_command_takes_slot(name, callback) ==
  /\ ~obs.fault
  /\ IF name = NULL \/ callback = NULL
     THEN /\ UNCHANGED << console_cmds, s_cmd_count >>
          /\ obs' = [NoObs EXCEPT !.op = "register_simple", !.name = name,
                                  !.cb = callback,
                                  !.ret = ESP_ERR_INVALID_ARG]
     ELSE \E engine_ret \in {ESP_OK, ESP_ERR_NO_MEM} :
            /\ console_cmds' =
                 IF engine_ret = ESP_OK
                 THEN console_cmds \cup {[name |-> name, func |-> callback]}
                 ELSE console_cmds
            /\ s_cmd_count' = IF s_cmd_count < CLI_MAX_COMMANDS
                              THEN s_cmd_count + 1 ELSE s_cmd_count
            /\ obs' = [NoObs EXCEPT !.op = "register_simple", !.name = name,
                                    !.cb = callback, !.ret = engine_ret,
                                    !.engine = engine_ret]
  /\ UNCHANGED << s_initialized, s_store_history, s_wl_handle, s_prompt,
                  s_registered_cmds, heap, calls >>

\* Hands (name, callback) straight to the console engine; the registry is
\* not involved.
cli_register_simple_command(name, callback) ==
  /\ ~obs.fault
  /\ IF name = NULL \/ callback = NULL
     THEN /\ UNCHANGED console_cmds
          /\ obs' = [NoObs EXCEPT !.op = "register_simple", !.name = name,
                                  !.cb = callback,
                                  !.ret = ESP_ERR_INVALID_ARG]
     ELSE \E engine_ret \in {ESP_OK, ESP_ERR_NO_MEM} :
            /\ console_cmds' =
                 IF engine_ret = ESP_OK
                 THEN console_cmds \cup {[name |-> name, func |-> callback]}
                 ELSE console_cmds
            /\ obs' = [NoObs EXCEPT !.op = "register_simple", !.name = name,
                                    !.cb = callback, !.ret = engine_ret,
                                    !.engine = engine_ret]
  /\ UNCHANGED << s_initialized, s_store_history, s_wl_handle, s_prompt,
                  s_registered_cmds, s_cmd_count, heap, calls >>

app_register_hello ==
  /\ run.pc = "reg_hello"
  /\ cli_register_simple_command("hello", "cmd_hello")
  /\ run' = [run EXCEPT !.pc = "reg_echo"]

\* cli_register_command(&id) as statement `at` of app_main, its result
\* ignored.
RegisterAt(at, next, id) ==
  /\ run.pc = at
  /\ RegisterCall({id}, {ESP_OK, ESP_ERR_NO_MEM}, AnyFailPoint,
                  MaxCalls + MaxLines)
  /\ run' = [run EXCEPT !.pc = next]

app_register_echo == RegisterAt("reg_echo", "reg_calc", "echo_cmd")

\* A registration that a command handler could also reach from the loop.
app_register_calc_also_in_loop ==
  \/ RegisterAt("reg_calc", "run", "calc_cmd")
  \/ RegisterAt("read", "read", "calc_cmd")

app_register_calc == RegisterAt("reg_calc", "run", "calc_cmd")

\* What the user types; << >> is a line of blanks.
AppLines ==
  { << >>,
    << "nope" >>,
    << "hello" >>,
    << "echo", "-m", "hi" >>,
    << "echo" >>,
    << "calc", "-a", "7", "-b", "2" >>,
    << "calc", "-a", "7" >> }

\* A cli_run that starts its loop without looking at s_initialized.
CliRunEntryUnchecked ==
  /\ ~obs.fault
  /\ \E ignore_null \in BOOLEAN :
       run' = [run EXCEPT !.pc = "read", !.ignore_null = ignore_null,
                          !.ret = ""]
  /\ obs' = [NoObs EXCEPT !.op = "run", !.after = obs.op,
                          !.after_ret = obs.ret]
  /\ UNCHANGED << s_initialized, s_store_history, s_wl_handle, s_prompt,
                  s_registered_cmds, s_cmd_count, heap, console_cmds, calls >>

\* cli_run up to its loop.  ignore_null is CONFIG_CONSOLE_IGNORE_EMPTY_LINES;
\* a return leaves the caller at the statement after the call.
CliRunEntry ==
  /\ ~obs.fault
  /\ IF ~s_initialized
     THEN run' = [run EXCEPT !.pc = "deinit", !.ret = ESP_ERR_INVALID_STATE]
     ELSE \E ignore_null \in BOOLEAN :
            run' = [run EXCEPT !.pc = "read", !.ignore_null = ignore_null,
                               !.ret = ""]
  /\ obs' = [NoObs EXCEPT !.op = "run", !.after = obs.op,
                          !.after_ret = obs.ret]
  /\ UNCHANGED << s_initialized, s_store_history, s_wl_handle, s_prompt,
                  s_registered_cmds, s_cmd_count, heap, console_cmds, calls >>

cli_run_enter ==
  /\ run.pc = "run"
  /\ CliRunEntry

\* linenoise(s_prompt), the NULL test and the history update.
cli_run_read ==
  /\ run.pc = "read"
  /\ run.lines < MaxLines
  /\ \E got \in BOOLEAN, line \in AppLines :
       /\ ~got => line = << >>
       /\ run' = IF got
                 THEN [run EXCEPT !.pc = "exec", !.held = TRUE,
                                  !.line = line, !.lines = @ + 1,
                                  !.history = @ + 1,
                                  !.saved = IF s_store_history THEN @ + 1
                                            ELSE @,
                                  !.err = "", !.report = ""]
                 ELSE IF run.ignore_null
                 THEN [run EXCEPT !.lines = @ + 1]
                 ELSE [run EXCEPT !.pc = "deinit", !.lines = @ + 1,
                                  !.ret = ESP_OK]
  /\ obs' = [NoObs EXCEPT !.op = "read"]
  /\ UNCHANGED << s_initialized, s_store_history, s_wl_handle, s_prompt,
                  s_registered_cmds, s_cmd_count, heap, console_cmds, calls >>

\* The functions the engine holds under a name; which of two it calls
\* depends on how the engine treats a name registered twice.
Handlers(name) == {c.func : c \in {d \in console_cmds : d.name = name}}

\* esp_console_run(line, &ret) and the four-way report on its outcome.  The
\* engine fails on its own allocation, refuses a line without a word or
\* with an unknown first word, and otherwise calls the handler it holds: the
\* callback of a simple command, cli_command_wrapper for the others.  A
\* handler that traps never returns to the loop.
cli_run_exec ==
  /\ run.pc = "exec"
  /\ LET line == run.line
         done(err, report) ==
           [run EXCEPT !.pc = "free", !.err = err, !.report = report]
         quiet == [NoObs EXCEPT !.op = "exec"]
     IN \E engine_ok \in BOOLEAN :
          IF ~engine_ok
          THEN /\ run' = done(ESP_ERR_NO_MEM, "Internal error")
               /\ obs' = quiet
               /\ heap' = heap
          ELSE IF Len(line) = 0
          THEN /\ run' = done(ESP_ERR_INVALID_ARG, "")
               /\ obs' = quiet
               /\ heap' = heap
          ELSE IF Handlers(line[1]) = {}
          THEN /\ run' = done(ESP_ERR_NOT_FOUND, "Command not recognized")
               /\ obs' = quiet
               /\ heap' = heap
          ELSE \E func \in Handlers(line[1]) :
                 IF func # "cli_command_wrapper"
                 THEN /\ run' = done(ESP_OK, "")
                      /\ obs' = [quiet EXCEPT !.cb_calls = 1, !.cb = func,
                                              !.returned = TRUE]
                      /\ heap' = heap
                 ELSE /\ WrapperCall(line)
                      /\ run' = IF obs'.fault
                                THEN [run EXCEPT !.pc = "crashed"]
                                ELSE done(ESP_OK,
                                          IF obs'.wret # 0
                                          THEN "Command returned error"
                                          ELSE "")
  /\ UNCHANGED << s_initialized, s_store_history, s_wl_handle, s_prompt,
                  s_registered_cmds, s_cmd_count, console_cmds, calls >>

\* linenoiseFree(line) and the jump back to the top of the loop.
cli_run_free ==
  /\ run.pc = "free"
  /\ run' = [run EXCEPT !.pc = "read", !.held = FALSE, !.line = << >>,
                        !.released = @ + 1]
  /\ UNCHANGED << s_initialized, s_store_history, s_wl_handle, s_prompt,
                  s_registered_cmds, s_cmd_count, heap, console_cmds, calls,
                  obs >>

app_cli_deinit ==
  /\ run.pc = "deinit"
  /\ cli_deinit
  /\ run' = [run EXCEPT !.pc = "done"]

NextApp ==
  \/ app_cli_init
  \/ app_register_hello
  \/ app_register_echo
  \/ app_register_calc
  \/ cli_run_enter
  \/ cli_run_read
  \/ cli_run_exec
  \/ cli_run_free
  \/ app_cli_deinit

SpecApp == Init /\ [][NextApp]_vars

(***************************************************************************)
(* A client that calls the public API in any order: lifecycle calls, both  *)
(* registration functions and cli_run, whose loop then reads, dispatches   *)
(* and releases lines until linenoise returns NULL.                        *)
(***************************************************************************)
\* The caller is not inside cli_run.
OutsideLoop == run.pc \notin {"read", "exec", "free", "crashed"}

LifeConfigs == {CLI_CONFIG_DEFAULT, AppConfig}

life_cli_init ==
  /\ OutsideLoop
  /\ CliInit(LifeConfigs, {FALSE})
  /\ UNCHANGED run

life_cli_deinit ==
  /\ OutsideLoop
  /\ cli_deinit
  /\ UNCHANGED run

life_register_command ==
  /\ OutsideLoop
  /\ RegisterCall({"echo_cmd"}, {ESP_OK, ESP_ERR_NO_MEM}, {-1}, MaxCalls)
  /\ UNCHANGED run

\* The names and callbacks handed to cli_register_simple_command.
SimpleNames == {"hello", NULL}

SimpleCallbacks == {"cmd_hello", NULL}

life_register_simple ==
  /\ OutsideLoop
  /\ \E name \in SimpleNames, callback \in SimpleCallbacks :
       cli_register_simple_command(name, callback)
  /\ UNCHANGED run

life_cli_run ==
  /\ OutsideLoop
  /\ CliRunEntry

NextLife ==
  \/ life_cli_init
  \/ life_cli_deinit
  \/ life_register_command
  \/ life_register_simple
  \/ life_cli_run
  \/ cli_run_read
  \/ cli_run_exec
  \/ cli_run_free

SpecLife == Init /\ [][NextLife]_vars

(***************************************************************************)
(* Properties.                                                             *)
(***************************************************************************)
\* What the wrapper's lookup can reach: the entries below the count, each
\* with its descriptor and the nodes its table points to.
NodeView(h, handle) ==
  IF handle = NullNode THEN Node("NULL", NULL, 0, 0) ELSE h[handle]

EntryView(h, slot) ==
  [cmd_def |-> slot.cmd_def,
   table |-> [i \in 0..CLI_MAX_ARGS |-> NodeView(h, slot.argtable[i])]]

LookupView(cmds, count, h) ==
  [i \in 0..(count - 1) |-> EntryView(h, cmds[i])]

IsRegister == obs.op = "register"

IsDispatch == obs.op = "dispatch"

RegisteredCmd == CmdDef(obs.cmd)

\* The descriptor of the entry the last dispatch resolved to.
DispatchedCmd == CmdDef(s_registered_cmds[obs.found].cmd_def)

\* C1: a cli_register_command call that returns anything but ESP_OK leaves
\* the count and the entries reachable by the lookup as they were.
C1_FailedRegistrationKeepsRegistry ==
  [][(obs'.op = "register" /\ obs'.ret # ESP_OK)
       => /\ s_cmd_count' = s_cmd_count
          /\ LookupView(s_registered_cmds', s_cmd_count', heap')
               = LookupView(s_registered_cmds, s_cmd_count, heap)]_vars

\* C2: dispatching a command registered with arg_count = 0 calls the
\* callback with the raw argc/argv: no table is parsed, no Context is built.
C2_ZeroArgCalledDirectly ==
  (IsDispatch /\ obs.found # -1 /\ DispatchedCmd.arg_count = 0)
    => /\ ~obs.table_run
       /\ ~obs.has_ctx
       /\ obs.raw_call
       /\ obs.cb_calls = 1

(***************************************************************************)
(* A command line read against a descriptor, independently of the parser:  *)
(* the sequence of (declared argument, value) items.  arg = 0 marks a      *)
(* token that belongs to no declared argument, missing a value that the    *)
(* line ends before.                                                       *)
(***************************************************************************)
DeclaredAs(cmd, tok) ==
  {k \in 1..Len(cmd.args) :
     IsOption(tok) /\ cmd.args[k].short_opt = OptLetter(tok)}

RECURSIVE LineItems(_, _, _)
LineItems(cmd, argv, i) ==
  IF i > Len(argv) THEN << >>
  ELSE IF DeclaredAs(cmd, argv[i]) = {}
  THEN << [arg |-> 0, val |-> argv[i], missing |-> FALSE] >>
         \o LineItems(cmd, argv, i + 1)
  ELSE
    LET k == CHOOSE k \in DeclaredAs(cmd, argv[i]) : TRUE IN
    IF cmd.args[k].type = CLI_ARG_TYPE_FLAG
    THEN << [arg |-> k, val |-> "", missing |-> FALSE] >>
           \o LineItems(cmd, argv, i + 1)
    ELSE IF i = Len(argv)
    THEN << [arg |-> k, val |-> "", missing |-> TRUE] >>
    ELSE << [arg |-> k, val |-> argv[i + 1], missing |-> FALSE] >>
           \o LineItems(cmd, argv, i + 2)

ItemsOf(cmd, argv, k) ==
  SelectSeq(LineItems(cmd, argv, 2), LAMBDA it : it.arg = k)

Occurrences(cmd, argv, k) == Len(ItemsOf(cmd, argv, k))

\* The line gives every required argument once, every optional one at most
\* once, every value in the form its kind asks for, and nothing else.
AcceptableLine(cmd, argv) ==
  /\ Occurrences(cmd, argv, 0) = 0
  /\ \A k \in 1..Len(cmd.args) :
       /\ Occurrences(cmd, argv, k) <= 1
       /\ cmd.args[k].required => Occurrences(cmd, argv, k) = 1
       /\ \A j \in 1..Occurrences(cmd, argv, k) :
            LET it == ItemsOf(cmd, argv, k)[j] IN
            /\ ~it.missing
            /\ cmd.args[k].type = CLI_ARG_TYPE_INT => IsIntText(it.val)

\* The cli_arg_value_t the line should give argument k.
ExpectedValue(cmd, argv, k) ==
  IF Occurrences(cmd, argv, k) = 0 THEN NoValue
  ELSE LET it == ItemsOf(cmd, argv, k)[1] IN
       CASE cmd.args[k].type = CLI_ARG_TYPE_INT ->
              [NoValue EXCEPT !.count = 1, !.int_value = IntOfText(it.val)]
         [] cmd.args[k].type = CLI_ARG_TYPE_STRING ->
              [NoValue EXCEPT !.count = 1, !.str_value = it.val]
         [] cmd.args[k].type = CLI_ARG_TYPE_FLAG ->
              [NoValue EXCEPT !.count = 1, !.flag_value = TRUE]

RequiredOmitted(cmd, argv) ==
  \E k \in 1..Len(cmd.args) :
    cmd.args[k].required /\ Occurrences(cmd, argv, k) = 0

OptionalOmitted(cmd, argv) ==
  {k \in 1..Len(cmd.args) :
     ~cmd.args[k].required /\ Occurrences(cmd, argv, k) = 0}

\* C3: a dispatch that omits a required argument never reaches the callback
\* and returns nonzero; so does every dispatch whose parse reports errors.
C3_RequiredOmittedRejected ==
  (IsDispatch /\ obs.found # -1
     /\ (RequiredOmitted(DispatchedCmd, obs.argv) \/ obs.nerrors > 0))
    => /\ obs.cb_calls = 0
       /\ obs.returned
       /\ obs.wret # 0

\* C4: a dispatch that gives every required argument and omits an optional
\* one invokes the callback, and the omitted argument's Context entry has
\* count 0 and the default of its kind.
C4_OptionalOmittedDefaults ==
  (IsDispatch /\ obs.found # -1
     /\ AcceptableLine(DispatchedCmd, obs.argv)
     /\ OptionalOmitted(DispatchedCmd, obs.argv) # {})
    => /\ obs.cb_calls = 1
       /\ obs.has_ctx
       /\ \A k \in OptionalOmitted(DispatchedCmd, obs.argv) :
            /\ obs.ctx.args[k].count = 0
            /\ obs.ctx.args[k].int_value = 0
            /\ obs.ctx.args[k].str_value = NULL
            /\ obs.ctx.args[k].flag_value = FALSE


\* C5: whenever the callback is invoked with a Context, an argument that the
\* command line supplies once has count 1 in its Context entry, and the
\* entry's value is the supplied one: the string itself, the number the
\* text denotes, or true for a flag.
C5_SuppliedValueRoundTrip ==
  (IsDispatch /\ obs.cb_calls = 1 /\ obs.has_ctx)
    => \A k \in 1..Len(DispatchedCmd.args) :
         (/\ Occurrences(DispatchedCmd, obs.argv, k) = 1
          /\ ~ItemsOf(DispatchedCmd, obs.argv, k)[1].missing)
           => LET val == ItemsOf(DispatchedCmd, obs.argv, k)[1].val
                  type == DispatchedCmd.args[k].type
                  got == obs.ctx.args[k]
              IN /\ got.count = 1
                 /\ type = CLI_ARG_TYPE_STRING => got.str_value = val
                 /\ type = CLI_ARG_TYPE_INT
                      => IsIntText(val) /\ got.int_value = IntOfText(val)
                 /\ type = CLI_ARG_TYPE_FLAG => got.flag_value = TRUE

\* A callback invocation for a line that supplies an argument of each kind
\* once, the Integer in hexadecimal.
C5_Witness ==
  /\ IsDispatch /\ obs.cb_calls = 1 /\ obs.has_ctx
  /\ \A type \in ArgKinds :
       \E k \in 1..Len(DispatchedCmd.args) :
         /\ DispatchedCmd.args[k].type = type
         /\ Occurrences(DispatchedCmd, obs.argv, k) = 1
         /\ obs.ctx.args[k].count = 1
  /\ \E k \in 1..Len(DispatchedCmd.args) : obs.ctx.args[k].int_value = 16

EchoExampleLine == << "echo", "-m", "hi", "-n", "2" >>

\* C6: whenever the callback is invoked it is invoked once, with a Context
\* that carries the dispatch's argc and argv, the descriptor's arg_count,
\* and in args[i] the value the line gives descriptor argument i, for every
\* declared argument; and a dispatch of [echo, -m, hi, -n, 2] to the echo
\* command that returns has invoked the callback with
\* args = [{str hi, count 1}, {int 2, count 1}, {flag false, count 0}].
C6_ContextMirrorsDescriptor ==
  /\ (IsDispatch /\ obs.cb_calls > 0)
       => /\ obs.cb_calls = 1
          /\ obs.has_ctx
          /\ obs.cb = DispatchedCmd.callback
          /\ obs.ctx.argc = Len(obs.argv)
          /\ obs.ctx.argv = obs.argv
          /\ obs.ctx.arg_count = DispatchedCmd.arg_count
          /\ DOMAIN obs.ctx.args = 1..DispatchedCmd.arg_count
          /\ \A i \in 1..DispatchedCmd.arg_count :
               obs.ctx.args[i] = ExpectedValue(DispatchedCmd, obs.argv, i)
  /\ (IsDispatch /\ obs.returned /\ obs.found # -1
        /\ obs.argv = EchoExampleLine
        /\ s_registered_cmds[obs.found].cmd_def = "echo_cmd")
       => /\ obs.cb_calls = 1
          /\ obs.ctx.args =
               << [NoValue EXCEPT !.count = 1, !.str_value = "hi"],
                  [NoValue EXCEPT !.count = 1, !.int_value = 2],
                  NoValue >>

\* The echo example, dispatched and answered by the callback with 0.
C6_Witness ==
  /\ IsDispatch /\ obs.returned /\ obs.found # -1
  /\ obs.argv = EchoExampleLine
  /\ s_registered_cmds[obs.found].cmd_def = "echo_cmd"
  /\ obs.cb_calls = 1
  /\ obs.ctx.args[2].int_value = 2
  /\ obs.wret = 0

\* C7: when the lookup finds the command and arg_parse returns no error, the
\* callback is invoked exactly once and the wrapper returns the callback's
\* result itself, zero or not.
C7_CallbackResultVerbatim ==
  (IsDispatch /\ obs.found # -1 /\ obs.table_run /\ ~obs.fault
     /\ obs.nerrors = 0)
    => /\ obs.cb_calls = 1
       /\ obs.returned
       /\ obs.wret = obs.cb_ret

\* A dispatch whose callback returned a nonzero result.
C7_Witness ==
  /\ IsDispatch /\ obs.found # -1 /\ obs.nerrors = 0 /\ ~obs.fault
  /\ obs.cb_calls = 1
  /\ obs.cb_ret # 0
  /\ obs.wret = obs.cb_ret

\* The indices below the count whose descriptor carries the name.
EntriesNamed(cmds, count, name) ==
  {i \in 0..(count - 1) : CmdDef(cmds[i].cmd_def).name = name}

\* C8: after a successful cli_register_command of a descriptor with
\* 1 <= arg_count <= CLI_MAX_ARGS whose name was not registered, the count
\* is one more than before, one entry carries the name, and its table is
\* the arg_count nodes the constructors selected by (kind, required) build,
\* in declared order, followed by an end node: arg_count + 1 nodes built.
C8_SuccessBuildsWholeTable ==
  (/\ IsRegister /\ obs.ret = ESP_OK
   /\ RegisteredCmd.arg_count \in 1..CLI_MAX_ARGS
   /\ EntriesNamed(s_registered_cmds, obs.slot, RegisteredCmd.name) = {})
    => /\ s_cmd_count = obs.slot + 1
       /\ EntriesNamed(s_registered_cmds, s_cmd_count, RegisteredCmd.name)
            = {obs.slot}
       /\ s_registered_cmds[obs.slot].cmd_def = obs.cmd
       /\ Cardinality(obs.allocated) = RegisteredCmd.arg_count + 1
       /\ \A i \in 0..(RegisteredCmd.arg_count - 1) :
            /\ Live(heap, s_registered_cmds[obs.slot].argtable[i])
            /\ heap[s_registered_cmds[obs.slot].argtable[i]]
                 = SelectCtor(RegisteredCmd.args[i + 1])
       /\ Live(heap,
               s_registered_cmds[obs.slot].argtable[RegisteredCmd.arg_count])
       /\ IsTerminator(
            heap[s_registered_cmds[obs.slot].argtable[RegisteredCmd.arg_count]])

\* C9: the count never exceeds CLI_MAX_COMMANDS, and every
\* cli_register_command call made while the count is CLI_MAX_COMMANDS, the
\* first and each repetition alike, fails and leaves the count; for a
\* descriptor with a name and a callback the status is ESP_ERR_NO_MEM.
C9_FullRegistryRejects ==
  [][/\ s_cmd_count' <= CLI_MAX_COMMANDS
     /\ (calls' # calls /\ obs'.op = "register"
           /\ s_cmd_count = CLI_MAX_COMMANDS)
          => /\ s_cmd_count' = s_cmd_count
             /\ obs'.ret # ESP_OK
             /\ (obs'.cmd # NULL /\ CmdDef(obs'.cmd).name # NULL
                   /\ CmdDef(obs'.cmd).callback # NULL)
                  => obs'.ret = ESP_ERR_NO_MEM]_vars

\* The last call the budget allows, made on a full registry and rejected.
C9_Witness ==
  /\ IsRegister
  /\ obs.slot = CLI_MAX_COMMANDS
  /\ s_cmd_count = CLI_MAX_COMMANDS
  /\ obs.ret = ESP_ERR_NO_MEM
  /\ calls = CLI_MAX_COMMANDS + MaxExtraCalls

\* C10: cli_register_command of a descriptor with arg_count > CLI_MAX_ARGS
\* returns an error, leaves the count, leaves none of the nodes it
\* allocated unreleased, and accesses nothing outside argtable[].
C10_OverlongDescriptorRejected ==
  (IsRegister /\ obs.cmd # NULL /\ RegisteredCmd.name # NULL
     /\ RegisteredCmd.callback # NULL
     /\ RegisteredCmd.arg_count > CLI_MAX_ARGS
     /\ obs.slot < CLI_MAX_COMMANDS)
    => /\ obs.ret # ESP_OK
       /\ s_cmd_count = obs.slot
       /\ \A handle \in obs.allocated : ~Live(heap, handle)
       /\ ~obs.oob

\* Every node the last call allocated has been released exactly once.
AllocatedAllReleased ==
  \A handle \in obs.allocated : heap[handle].frees = 1

\* C11: when the constructor of node i returns NULL during
\* cli_register_command (i = arg_count being the end node), the nodes built
\* by this call, those of arguments 0..i-1, are each released once and no
\* other, the call returns ESP_ERR_NO_MEM, and the count is unchanged.
C11_FailedNodeRollsBack ==
  (IsRegister /\ obs.failed >= 0)
    => /\ obs.ret = ESP_ERR_NO_MEM
       /\ s_cmd_count = obs.slot
       /\ Cardinality(obs.allocated) = obs.failed
       /\ Len(obs.freed) = obs.failed
       /\ {obs.freed[j] : j \in 1..Len(obs.freed)} = obs.allocated
       /\ AllocatedAllReleased

\* C12: after a cli_register_command call that returns an error, every node
\* allocated during the call has been released, exactly once.
C12_FailedRegistrationLeaksNothing ==
  (IsRegister /\ obs.ret # ESP_OK) => AllocatedAllReleased

HasInvalidKind(cmd) ==
  \E k \in 1..Len(cmd.args) : cmd.args[k].type \notin ArgKinds

\* C13: a cli_register_command call on a descriptor with an invalid
\* argument kind at some index returns ESP_ERR_INVALID_ARG, allocates no
\* node, and leaves the count and every slot of the registry as they were.
C13_InvalidKindRejectedFirst ==
  [][(/\ obs'.op = "register" /\ calls' # calls
      /\ obs'.cmd # NULL
      /\ CmdDef(obs'.cmd).name # NULL /\ CmdDef(obs'.cmd).callback # NULL
      /\ s_cmd_count < CLI_MAX_COMMANDS
      /\ HasInvalidKind(CmdDef(obs'.cmd)))
       => /\ obs'.ret = ESP_ERR_INVALID_ARG
          /\ obs'.allocated = {}
          /\ s_cmd_count' = s_cmd_count
          /\ LookupView(s_registered_cmds', CLI_MAX_COMMANDS, heap')
               = LookupView(s_registered_cmds, CLI_MAX_COMMANDS, heap)]_vars

\* The failure class of the last cli_register_command call.
InvalidArgumentClass ==
  /\ IsRegister /\ obs.ret # ESP_OK
  /\ \/ obs.cmd = NULL
     \/ RegisteredCmd.name = NULL
     \/ RegisteredCmd.callback = NULL
     \/ (obs.engine = "" /\ obs.failed = -1 /\ obs.slot < CLI_MAX_COMMANDS)

CapacityClass ==
  /\ IsRegister /\ obs.ret # ESP_OK /\ ~InvalidArgumentClass
  /\ obs.slot >= CLI_MAX_COMMANDS

EnginePassthroughClass ==
  IsRegister /\ obs.ret # ESP_OK /\ obs.engine \notin {"", ESP_OK}

\* C19: the status of a failed cli_register_command tells the class of the
\* failure: ESP_ERR_INVALID_ARG is returned for an invalid argument only,
\* ESP_ERR_NO_MEM for exceeded capacity only, and a failure passed through
\* from esp_console_cmd_register carries neither of the two.
C19_StatusTellsFailureClass ==
  /\ InvalidArgumentClass => obs.ret = ESP_ERR_INVALID_ARG
  /\ CapacityClass => obs.ret = ESP_ERR_NO_MEM
  /\ EnginePassthroughClass
       => obs.ret \notin {ESP_ERR_INVALID_ARG, ESP_ERR_NO_MEM}

\* C14: a cli_register_command call whose name is already registered
\* succeeds like any other once esp_console_cmd_register accepts it, the
\* count growing by one each time; and a dispatch resolves to the lowest
\* index that carries the name: that entry's table is the one parsed and
\* a callback that is invoked is that entry's.
C14_FirstRegisteredWins ==
  /\ (/\ IsRegister /\ obs.cmd # NULL /\ obs.engine = ESP_OK
      /\ EntriesNamed(s_registered_cmds, obs.slot, RegisteredCmd.name) # {})
       => /\ obs.ret = ESP_OK
          /\ s_cmd_count = obs.slot + 1
          /\ s_registered_cmds[obs.slot].cmd_def = obs.cmd
  /\ (IsDispatch /\ EntriesNamed(s_registered_cmds, s_cmd_count, obs.argv[1]) # {})
       => /\ obs.found # -1
          /\ \A i \in EntriesNamed(s_registered_cmds, s_cmd_count, obs.argv[1]) :
               obs.found <= i
          /\ obs.table_run
          /\ obs.cb_calls > 0
               => /\ obs.cb = DispatchedCmd.callback
                  /\ obs.ctx.arg_count = DispatchedCmd.arg_count

\* echo2_cmd registered first and echo_cmd second: [echo, -n, 7], which only
\* echo2_cmd's table accepts, reaches cmd_echo2.
C14_Witness ==
  /\ IsDispatch
  /\ s_cmd_count = 2
  /\ s_registered_cmds[0].cmd_def = "echo2_cmd"
  /\ s_registered_cmds[1].cmd_def = "echo_cmd"
  /\ obs.argv = << "echo", "-n", "7" >>
  /\ obs.found = 0
  /\ obs.cb_calls = 1
  /\ obs.cb = "cmd_echo2"

\* C16: a dispatch whose argv[0] is the name of no entry below the count,
\* compared character by character, returns nonzero without parsing and
\* without a callback, and reports it in a way no parse failure is
\* reported.
C16_UnknownNameReportedApart ==
  /\ (IsDispatch
        /\ EntriesNamed(s_registered_cmds, s_cmd_count, obs.argv[1]) = {})
       => /\ obs.returned
          /\ obs.wret # 0
          /\ ~obs.table_run
          /\ obs.cb_calls = 0
          /\ ~obs.has_ctx
          /\ obs.report = NotFoundReport
  /\ (IsDispatch /\ obs.found # -1) => obs.report # NotFoundReport

\* "ECHO" dispatched while "echo" is registered.
C16_Witness ==
  /\ IsDispatch
  /\ obs.argv[1] = "ECHO"
  /\ EntriesNamed(s_registered_cmds, s_cmd_count, "echo") # {}
  /\ obs.found = -1
  /\ obs.wret = 1
  /\ obs.report = NotFoundReport

\* The names the lookup can find.
NamesFound(cmds, count) ==
  {CmdDef(cmds[i].cmd_def).name : i \in 0..(count - 1)}

\* After the step the lookup finds none of the names it found before.
RegistryCleared ==
  /\ s_cmd_count' = 0
  /\ \A name \in NamesFound(s_registered_cmds, s_cmd_count) :
       Lookup(s_registered_cmds', s_cmd_count', name) = -1

\* A successful registration made right after a teardown that left the
\* count at zero goes to slot 0.
FirstSlotReused ==
  (obs.op = "deinit" /\ s_cmd_count = 0
     /\ obs'.op = "register" /\ obs'.ret = ESP_OK)
    => /\ obs'.slot = 0
       /\ s_cmd_count' = 1
       /\ s_registered_cmds'[0].cmd_def = obs'.cmd

ElementFailure(ids, k, base, engine) ==
  IF CmdDef(ids[k]).name = NULL \/ CmdDef(ids[k]).callback = NULL
  THEN ESP_ERR_INVALID_ARG
  ELSE IF base + k - 1 >= CLI_MAX_COMMANDS THEN ESP_ERR_NO_MEM
  ELSE engine

\* C15: cli_register_commands registers the descriptors in array order into
\* consecutive slots; on the first failing element it returns that
\* element's status, the elements before it are below the count, in their
\* slots and found by the lookup, and the slots past the failing element
\* are untouched.
C15_BatchStopsAtFirstFailure ==
  [][(obs'.op = "register_commands" /\ Len(obs'.batch) > 0)
       => LET ids == obs'.batch
              k == obs'.attempted
              base == s_cmd_count
              done == IF obs'.ret = ESP_OK THEN Len(ids) ELSE k - 1
          IN /\ obs'.ret = ESP_OK => k = Len(ids)
             /\ obs'.ret # ESP_OK
                  => /\ k \in 1..Len(ids)
                     /\ obs'.ret = ElementFailure(ids, k, base, obs'.engine)
             /\ \A j \in 1..done :
                  /\ base + j - 1 < s_cmd_count'
                  /\ s_registered_cmds'[base + j - 1].cmd_def = ids[j]
                  /\ Lookup(s_registered_cmds', s_cmd_count',
                            CmdDef(ids[j]).name) \in 0..(base + j - 1)
             /\ s_cmd_count' <= base + done + 1
             /\ \A i \in (base + done + 1)..(CLI_MAX_COMMANDS - 1) :
                  EntryView(heap', s_registered_cmds'[i])
                    = EntryView(heap, s_registered_cmds[i])]_vars

\* A batch of two whose second element failed: the first one is registered.
C15_Witness ==
  /\ obs.op = "register_commands"
  /\ Len(obs.batch) = 2
  /\ obs.attempted = 2
  /\ obs.ret # ESP_OK
  /\ s_cmd_count > obs.slot
  /\ s_registered_cmds[obs.slot].cmd_def = obs.batch[1]
  /\ Lookup(s_registered_cmds, s_cmd_count, CmdDef(obs.batch[1]).name) # -1

\* The statements of cli_run's loop.
LoopPcs == {"read", "exec", "free", "crashed"}

\* C17: whatever executing a line leads to (not recognised, empty, nonzero
\* result, parse failure, engine error, success), cli_run releases the line
\* and goes back to read the next one; no dispatch-time error ends the loop.
C17_LoopSurvivesEveryOutcome ==
  [][ /\ run.pc = "exec" => run'.pc = "free"
      /\ run.pc = "free" => /\ run'.pc = "read"
                            /\ ~run'.held
                            /\ run'.released = run.released + 1 ]_vars

TableComplete(h, slot, k) ==
  /\ \A i \in 0..k : Live(h, TableAt(slot, i))
  /\ \A i \in 0..(k - 1) : ~IsTerminator(h[TableAt(slot, i)])
  /\ IsTerminator(h[TableAt(slot, k)])

\* C21: in every reachable state, every entry below the count whose command
\* declares k > 0 arguments references a complete parser table: k argument
\* nodes and the end node, none null and none released.
C21_ReachableTablesComplete ==
  \A i \in 0..(s_cmd_count - 1) :
    LET k == CmdDef(s_registered_cmds[i].cmd_def).arg_count IN
    k > 0 => TableComplete(heap, s_registered_cmds[i], k)

\* C22: every zero-argument command registered through cli_register_command
\* sits in the registry with a null parser table, whatever the slot held
\* before.
C22_ZeroArgTableIsNull ==
  \A i \in 0..(s_cmd_count - 1) :
    CmdDef(s_registered_cmds[i].cmd_def).arg_count = 0
      => \A j \in 0..CLI_MAX_ARGS : s_registered_cmds[i].argtable[j] = NullNode

\* C23: a dispatch through cli_command_wrapper, whatever its outcome, leaves
\* the count and every entry's descriptor reference, table handles and
\* argument count as they were.
C23_DispatchKeepsRegistry ==
  [][ (obs'.op = "dispatch" /\ calls' = calls)
        => /\ s_cmd_count' = s_cmd_count
           /\ \A i \in DOMAIN s_registered_cmds :
                /\ s_registered_cmds'[i].cmd_def = s_registered_cmds[i].cmd_def
                /\ s_registered_cmds'[i].argtable = s_registered_cmds[i].argtable
                /\ s_registered_cmds'[i].arg_count
                     = s_registered_cmds[i].arg_count ]_vars

\* A callback returned nonzero on a full registry whose nodes hold the parse.
C23_Witness ==
  /\ IsDispatch
  /\ s_cmd_count = CLI_MAX_COMMANDS
  /\ obs.cb_calls = 1
  /\ obs.cb_ret # 0
  /\ \E h \in DOMAIN heap : heap[h].count > 0

\* The dispatch of argv to descriptor id on a table that has parsed nothing
\* before: the error count of arg_parse and the Context the wrapper builds.
FreshDispatch(id, argv) ==
  LET r == Register(RegState([i \in 0..(CLI_MAX_COMMANDS - 1) |-> EmptySlot],
                             0, << >>),
                    id, -1, ESP_OK, cli_arg_t("g", CLI_ARG_TYPE_FLAG, FALSE))
      p == arg_parse(r.heap, r.cmds[0], argv)
  IN [nerrors |-> p.nerrors,
      ctx |-> BuildContext(p.heap, r.cmds[0], CmdDef(id), argv)]

\* C24: the Context a callback receives depends only on the argv of the
\* dispatch and the descriptor: whatever was dispatched before, the callback
\* is called exactly when a table that never parsed anything accepts the
\* line, and with the Context that table would give.
C24_ContextDependsOnArgvOnly ==
  (IsDispatch /\ obs.found # -1 /\ obs.returned /\ DispatchedCmd.arg_count > 0)
    => LET fresh == FreshDispatch(s_registered_cmds[obs.found].cmd_def,
                                  obs.argv)
       IN /\ obs.has_ctx <=> fresh.nerrors = 0
          /\ obs.has_ctx => obs.ctx = fresh.ctx

\* An Integer argument left out of this line while its node still holds the
\* value an earlier line gave it.
C24_Witness ==
  /\ IsDispatch
  /\ obs.has_ctx
  /\ \E i \in 1..DispatchedCmd.arg_count :
       /\ DispatchedCmd.args[i].type = CLI_ARG_TYPE_INT
       /\ obs.ctx.args[i].count = 0
       /\ obs.ctx.args[i].int_value = 0
       /\ heap[s_registered_cmds[obs.found].argtable[i - 1]].ival # 0

\* C25: once linenoise returns no line, the loop stops reading and
\* dispatching and cli_run returns ESP_OK.
C25_EndOfInputEndsLoop ==
  [][ (run.pc = "read" /\ run'.lines = run.lines + 1 /\ ~run'.held)
        => /\ run'.pc \notin LoopPcs
           /\ run'.ret = ESP_OK ]_vars

\* C26: whenever the wrapper invokes a user callback, every argument the
\* descriptor declares required has count >= 1 in the Context, and a
\* required String argument has a non-null str_value.
C26_RequiredPresentAtCallback ==
  (IsDispatch /\ obs.cb_calls = 1 /\ obs.has_ctx)
    => \A i \in DOMAIN obs.ctx.args :
         DispatchedCmd.args[i].required
           => /\ obs.ctx.args[i].count >= 1
              /\ DispatchedCmd.args[i].type = CLI_ARG_TYPE_STRING
                   => obs.ctx.args[i].str_value # NULL

\* cmd_echo called with its required message.
C26_Witness ==
  /\ IsDispatch
  /\ obs.cb_calls = 1
  /\ obs.cb = "cmd_echo"
  /\ DispatchedCmd.args[1].required
  /\ DispatchedCmd.args[1].type = CLI_ARG_TYPE_STRING
  /\ obs.ctx.args[1].count = 1
  /\ obs.ctx.args[1].str_value = "hi"

\* C27: cli_register_simple_command never changes the registry, on success
\* and on failure: count, entries and what the lookup resolves are the same
\* after the call, so the command takes none of the CLI_MAX_COMMANDS slots;
\* with a null name or a null callback it returns ESP_ERR_INVALID_ARG and
\* the console engine is not called.
C27_SimpleRegistrationSkipsRegistry ==
  [][ obs'.op = "register_simple"
        => /\ UNCHANGED << s_registered_cmds, s_cmd_count, heap >>
           /\ Lookup(s_registered_cmds', s_cmd_count', obs'.name)
                = Lookup(s_registered_cmds, s_cmd_count, obs'.name)
           /\ (obs'.name = NULL \/ obs'.cb = NULL)
                => /\ obs'.ret = ESP_ERR_INVALID_ARG
                   /\ obs'.engine = ""
                   /\ UNCHANGED console_cmds
           /\ (obs'.name # NULL /\ obs'.cb # NULL)
                => /\ obs'.ret = obs'.engine
                   /\ obs'.ret = ESP_OK
                        => [name |-> obs'.name, func |-> obs'.cb]
                             \in console_cmds' ]_vars

\* A simple command accepted by the engine while the registry is full and
\* does not know its name.
C27_Witness ==
  /\ obs.op = "register_simple"
  /\ obs.ret = ESP_OK
  /\ s_cmd_count = CLI_MAX_COMMANDS
  /\ Lookup(s_registered_cmds, s_cmd_count, obs.name) = -1
  /\ Handlers(obs.name) = {obs.cb}

\* C28: cli_run called while the console is not initialised (before any
\* cli_init, after a cli_init that failed on NVS, after cli_deinit) returns
\* ESP_ERR_INVALID_STATE, reads no line and dispatches nothing.
C28_RunNeedsInit ==
  [][ (obs'.op = "run" /\ ~s_initialized)
        => /\ run'.ret = ESP_ERR_INVALID_STATE
           /\ run'.pc \notin LoopPcs
           /\ ~run'.held
           /\ run'.lines = run.lines
           /\ run'.history = run.history
           /\ run'.saved = run.saved
           /\ UNCHANGED << s_initialized, s_registered_cmds, s_cmd_count,
                           heap, console_cmds >> ]_vars

\* cli_run refused after a cli_deinit that followed a loop which had read
\* lines.
C28_Witness ==
  /\ obs.op = "run"
  /\ obs.after = "deinit"
  /\ ~s_initialized
  /\ run.ret = ESP_ERR_INVALID_STATE
  /\ run.lines > 0

\* C29: cli_init on an initialised console returns ESP_OK and changes
\* nothing: no mount, no engine initialisation, no help registration, and
\* prompt, history flag and registry as before.  cli_deinit on a console that
\* is not initialised changes nothing.
C29_LifecycleIdempotent ==
  [][ /\ (obs'.op = "init" /\ s_initialized)
           => /\ obs'.ret = ESP_OK
              /\ obs'.mounts = 0
              /\ obs'.engine_inits = 0
              /\ obs'.help_regs = 0
              /\ UNCHANGED << s_initialized, s_store_history, s_wl_handle,
                              s_prompt, s_registered_cmds, s_cmd_count, heap,
                              console_cmds >>
      /\ (obs'.op = "deinit" /\ ~s_initialized)
           => UNCHANGED << s_initialized, s_store_history, s_wl_handle,
                           s_prompt, s_registered_cmds, s_cmd_count, heap,
                           console_cmds >> ]_vars

\* A second cli_init answered on a console that keeps its history, its help
\* command and a registered command.
C29_Witness ==
  /\ obs.op = "init"
  /\ obs.ret = ESP_OK
  /\ obs.engine_inits = 0
  /\ s_initialized
  /\ s_store_history
  /\ s_cmd_count > 0
  /\ HelpCommand \in console_cmds

\* C30: the history flag is set only while the history filesystem is
\* mounted; a mount failure leaves cli_init successful with history off;
\* cli_run saves the history only while the flag is set; after cli_deinit
\* the flag is clear and the filesystem unmounted.
C30_HistoryFlagFollowsMount ==
  [][ /\ s_store_history => s_wl_handle = "mounted"
      /\ s_store_history' => s_wl_handle' = "mounted"
      /\ (obs'.op = "init" /\ obs'.mount_failed)
           => /\ obs'.ret = ESP_OK
              /\ s_initialized'
              /\ ~s_store_history'
      /\ run'.saved > run.saved => s_store_history
      /\ (run'.history > run.history /\ s_store_history)
           => run'.saved = run.saved + 1
      /\ obs'.op = "deinit"
           => /\ ~s_store_history'
              /\ s_wl_handle' # "mounted" ]_vars

\* A cli_init that failed to mount, on a console whose earlier session had
\* saved a line.
C30_Witness ==
  /\ obs.op = "init"
  /\ obs.mount_failed
  /\ obs.ret = ESP_OK
  /\ s_initialized
  /\ ~s_store_history
  /\ run.saved > 0

====
